---- MODULE Spec2Model ----
(***************************************************************************)
(* A model of wgsl_preprocessor's ShaderBuilder (src/src/lib.rs).          *)
(*                                                                         *)
(* Text is modelled character by character: a string is a sequence of     *)
(* one-character strings, so that line splitting, trimming, directive     *)
(* matching and substring replacement are computed as the code computes   *)
(* them.  The file system is a function from path strings to file         *)
(* contents; a path outside its domain does not exist.                    *)
(***************************************************************************)
EXTENDS Integers, Sequences, FiniteSets, TLC

VARIABLES
    files,      \* the file system: path |-> content of the file
    defines,    \* the `defines` argument handed to ShaderBuilder::new
    builders,   \* root path |-> what ShaderBuilder::new(path, defines) gave
    last,       \* the last operation, its arguments and the text before it
    puts        \* the number of put_* calls made so far

vars == <<files, defines, builders, last, puts>>

-----------------------------------------------------------------------------
(* Strings.                                                                *)

INSTRUCTION_PREFIX == <<"/", "/", "!">>
INCLUDE_INSTRUCTION == INSTRUCTION_PREFIX \o <<"i", "n", "c", "l", "u", "d", "e">>
DEFINE_INSTRUCTION == INSTRUCTION_PREFIX \o <<"d", "e", "f", "i", "n", "e">>
IFDEF_INSTRUCTION == INSTRUCTION_PREFIX \o <<"i", "f", "d", "e", "f">>
IFNDEF_INSTRUCTION == INSTRUCTION_PREFIX \o <<"i", "f", "n", "d", "e", "f">>
ELSE_INSTRUCTION == INSTRUCTION_PREFIX \o <<"e", "l", "s", "e">>
ENDIF_INSTRUCTION == INSTRUCTION_PREFIX \o <<"e", "n", "d", "i", "f">>

NL == <<"\n">>
SP == <<" ">>

\* char::is_whitespace, for the characters the model uses
IsWhitespace(c) == c \in {" ", "\t", "\n", "\r"}

\* str::starts_with
StartsWith(s, prefix) ==
    /\ Len(prefix) <= Len(s)
    /\ SubSeq(s, 1, Len(prefix)) = prefix

\* pattern occurs in s at index i
MatchesAt(s, pattern, i) ==
    /\ i >= 1
    /\ i + Len(pattern) - 1 <= Len(s)
    /\ SubSeq(s, i, i + Len(pattern) - 1) = pattern

\* the index of the first c in s at or after i, or 0
RECURSIVE IndexFrom(_, _, _)
IndexFrom(s, c, i) ==
    IF i > Len(s) THEN 0
    ELSE IF s[i] = c THEN i
    ELSE IndexFrom(s, c, i + 1)

\* str::lines: the text split at "\n", a final "\r" of a line removed, and
\* no empty last line after a final "\n"
RECURSIVE Lines(_)
Lines(s) ==
    IF s = <<>> THEN <<>>
    ELSE LET n == IndexFrom(s, "\n", 1)
             raw == IF n = 0 THEN s ELSE SubSeq(s, 1, n - 1)
             line == IF raw # <<>> /\ raw[Len(raw)] = "\r"
                     THEN SubSeq(raw, 1, Len(raw) - 1) ELSE raw
         IN  IF n = 0 THEN <<line>>
             ELSE <<line>> \o Lines(SubSeq(s, n + 1, Len(s)))

\* str::trim
RECURSIVE TrimStart(_)
TrimStart(s) ==
    IF s # <<>> /\ IsWhitespace(s[1]) THEN TrimStart(Tail(s)) ELSE s

RECURSIVE TrimEnd(_)
TrimEnd(s) ==
    IF s # <<>> /\ IsWhitespace(s[Len(s)])
    THEN TrimEnd(SubSeq(s, 1, Len(s) - 1)) ELSE s

Trim(s) == TrimEnd(TrimStart(s))

\* line.split(' ').nth(1): the text between the first and the second space;
\* None when the line holds no space
SplitNth1(line) ==
    LET a == IndexFrom(line, " ", 1)
        b == IF a = 0 THEN 0 ELSE IndexFrom(line, " ", a + 1)
    IN  IF a = 0 THEN [some |-> FALSE]
        ELSE [some |-> TRUE,
              value |-> SubSeq(line, a + 1, IF b = 0 THEN Len(line) ELSE b - 1)]

\* the index after the run of non-whitespace characters that starts at i
RECURSIVE RunEnd(_, _)
RunEnd(s, i) ==
    IF i > Len(s) \/ IsWhitespace(s[i]) THEN i ELSE RunEnd(s, i + 1)

\* str::split_whitespace: the maximal runs of non-whitespace characters
RECURSIVE SplitWhitespaceFrom(_, _)
SplitWhitespaceFrom(s, i) ==
    IF i > Len(s) THEN <<>>
    ELSE IF IsWhitespace(s[i]) THEN SplitWhitespaceFrom(s, i + 1)
    ELSE LET e == RunEnd(s, i)
         IN  <<SubSeq(s, i, e - 1)>> \o SplitWhitespaceFrom(s, e)

SplitWhitespace(s) == SplitWhitespaceFrom(s, 1)

\* str::replace: the matches of `from` are found left to right, each search
\* starting after the previous match; an empty `from` matches at every
\* character boundary
RECURSIVE ReplaceFrom(_, _, _, _)
ReplaceFrom(s, from, to, i) ==
    IF i > Len(s) THEN (IF from = <<>> THEN to ELSE <<>>)
    ELSE IF from = <<>> THEN to \o <<s[i]>> \o ReplaceFrom(s, from, to, i + 1)
    ELSE IF MatchesAt(s, from, i)
         THEN to \o ReplaceFrom(s, from, to, i + Len(from))
    ELSE <<s[i]>> \o ReplaceFrom(s, from, to, i + 1)

Replace(s, from, to) == ReplaceFrom(s, from, to, 1)

\* MACRO_REGEX = "//!define (\S+) (.+)", tried at index i of the line: the
\* name is the whole run of non-whitespace characters after "//!define ",
\* one space follows it, and the value is the non-empty rest of the line
MacroMatchAt(line, i) ==
    LET head == DEFINE_INSTRUCTION \o SP
        j == i + Len(head)
        e == RunEnd(line, j)
    IN  IF /\ MatchesAt(line, head, i)
           /\ e > j
           /\ e < Len(line)
           /\ line[e] = " "
        THEN [matched |-> TRUE,
              name |-> SubSeq(line, j, e - 1),
              value |-> SubSeq(line, e + 1, Len(line))]
        ELSE [matched |-> FALSE]

\* MACRO_REGEX.captures(line): the leftmost match anywhere in the line
RECURSIVE MacroCapturesFrom(_, _)
MacroCapturesFrom(line, i) ==
    IF i > Len(line) THEN [matched |-> FALSE]
    ELSE IF MacroMatchAt(line, i).matched THEN MacroMatchAt(line, i)
    ELSE MacroCapturesFrom(line, i + 1)

MacroCaptures(line) == MacroCapturesFrom(line, 1)

-----------------------------------------------------------------------------
(* The definitions map (HashMap<String, String>): a function from names to *)
(* values.                                                                 *)

EmptyMap == [n \in {} |-> <<>>]

\* HashMap::insert
Insert(map, name, value) ==
    [n \in DOMAIN map \cup {name} |-> IF n = name THEN value ELSE map[n]]

\* HashMap::extend: the entries of `other` overwrite those of `map`
Extend(map, other) ==
    [n \in DOMAIN map \cup DOMAIN other |->
        IF n \in DOMAIN other THEN other[n] ELSE map[n]]

\* the sequences over S of length n at most
SeqsUpTo(S, n) == UNION {[1..k -> S] : k \in 0..n}

\* the orders in which an iteration may visit the elements of S
Orders(S) ==
    {o \in [1..Cardinality(S) -> S] :
        \A i, j \in 1..Cardinality(S) : o[i] = o[j] => i = j}

-----------------------------------------------------------------------------
(* ShaderBuilder::parse_defines.                                           *)

\* ParseLine with `//!ifndef` read as `//!ifdef`: the negation is lost
ParseLineIfndefAsIfdef(line, add, names) ==
    LET arg == SplitNth1(line)
    IN  IF StartsWith(line, ELSE_INSTRUCTION)
        THEN [panic |-> FALSE, add |-> ~add, push |-> <<>>]
        ELSE IF StartsWith(line, ENDIF_INSTRUCTION)
        THEN [panic |-> FALSE, add |-> TRUE, push |-> <<>>]
        ELSE IF StartsWith(line, IFDEF_INSTRUCTION)
                \/ StartsWith(line, IFNDEF_INSTRUCTION)
        THEN IF ~arg.some THEN [panic |-> TRUE]
             ELSE [panic |-> FALSE, add |-> arg.value \in names, push |-> <<>>]
        ELSE IF add
        THEN [panic |-> FALSE, add |-> add,
              push |-> line \o (IF line = <<>> THEN <<>> ELSE NL)]
        ELSE [panic |-> FALSE, add |-> add, push |-> <<>>]

\* One turn of the loop, for the trimmed line: the flag afterwards and the
\* text pushed to `fin`; unwrap() of a missing name panics.
ParseLine(line, add, names) ==
    LET arg == SplitNth1(line)
    IN  IF StartsWith(line, ELSE_INSTRUCTION)
        THEN [panic |-> FALSE, add |-> ~add, push |-> <<>>]
        ELSE IF StartsWith(line, ENDIF_INSTRUCTION)
        THEN [panic |-> FALSE, add |-> TRUE, push |-> <<>>]
        ELSE IF StartsWith(line, IFDEF_INSTRUCTION)
        THEN IF ~arg.some THEN [panic |-> TRUE]
             ELSE [panic |-> FALSE, add |-> arg.value \in names, push |-> <<>>]
        ELSE IF StartsWith(line, IFNDEF_INSTRUCTION)
        THEN IF ~arg.some THEN [panic |-> TRUE]
             ELSE [panic |-> FALSE, add |-> arg.value \notin names, push |-> <<>>]
        ELSE IF add
        THEN [panic |-> FALSE, add |-> add,
              push |-> line \o (IF line = <<>> THEN <<>> ELSE NL)]
        ELSE [panic |-> FALSE, add |-> add, push |-> <<>>]

\* The loop over the lines: `add` is the flag of the code and `fin` the text
\* of the lines pushed so far.
RECURSIVE ParseDefinesFrom(_, _, _, _, _)
ParseDefinesFrom(lines, i, add, fin, names) ==
    IF i > Len(lines) THEN [panic |-> FALSE, text |-> fin]
    ELSE LET step == ParseLine(Trim(lines[i]), add, names)
         IN  IF step.panic THEN [panic |-> TRUE, text |-> <<>>]
             ELSE ParseDefinesFrom(lines, i + 1, step.add, fin \o step.push, names)

ParseDefines(source_string, names) ==
    ParseDefinesFrom(Lines(source_string), 1, TRUE, <<>>, names)

-----------------------------------------------------------------------------
(* ShaderBuilder::load_shader_module.                                      *)
(*                                                                         *)
(* The result is the set of outcomes the call can have: the definitions    *)
(* are iterated in the order of a HashMap, which the code does not fix.    *)
(* `loading` is the set of modules whose load is in progress (the call     *)
(* stack): including one of them again repeats the same calls for ever,    *)
(* which ends in the overflow of the stack.                                *)

OkOutcome(text, definitions) ==
    [kind |-> "Ok", text |-> text, definitions |-> definitions]
NotFound == [kind |-> "Err", error |-> "NotFound"]
Panicked == [kind |-> "Panic"]
StackOverflow == [kind |-> "StackOverflow"]

\* SubstituteInOrder that stops after the first entry visited
SubstituteFirstEntryOnly(module_string, definitions, order, k) ==
    IF k > Len(order) \/ k > 1 THEN module_string
    ELSE Replace(module_string, order[k], definitions[order[k]])

\* definitions.iter().for_each(|(name, value)| replace(name, value)), with
\* the entries visited in the given order
RECURSIVE SubstituteInOrder(_, _, _, _)
SubstituteInOrder(module_string, definitions, order, k) ==
    IF k > Len(order) THEN module_string
    ELSE SubstituteInOrder(
             Replace(module_string, order[k], definitions[order[k]]),
             definitions, order, k + 1)

Substitute(module_string, definitions) ==
    {SubstituteInOrder(module_string, definitions, o, 1) :
        o \in Orders(DOMAIN definitions)}

\* ReadToString with a file that does not exist read as an empty file
ReadToStringOrEmpty(fs, path) ==
    [ok |-> TRUE, text |-> IF path \in DOMAIN fs THEN fs[path] ELSE <<>>]

\* ex::fs::read_to_string
ReadToString(fs, path) ==
    IF path \in DOMAIN fs THEN [ok |-> TRUE, text |-> fs[path]]
    ELSE [ok |-> FALSE]

RECURSIVE LoadShaderModule(_, _, _, _)
RECURSIVE LoadLines(_, _, _, _, _, _, _)
RECURSIVE LoadIncludes(_, _, _, _, _, _, _)

\* the inner loop: for include in line.split_whitespace().skip(1)
LoadIncludes(fs, includes, k, module_string, definitions, defs, loading) ==
    IF k > Len(includes) THEN {OkOutcome(module_string, definitions)}
    ELSE LET included ==
                 IF includes[k] \in loading THEN {StackOverflow}
                 ELSE LoadShaderModule(fs, includes[k], defs, loading)
         IN  UNION {
                 IF r.kind = "Ok"
                 THEN LoadIncludes(fs, includes, k + 1,
                          module_string \o r.text,
                          Extend(definitions, r.definitions), defs, loading)
                 ELSE {r} : r \in included}

\* the outer loop: for line in module_source.lines()
LoadLines(fs, lines, i, module_string, definitions, defs, loading) ==
    IF i > Len(lines) THEN {OkOutcome(module_string, definitions)}
    ELSE LET line == lines[i]
             captures == MacroCaptures(line)
         IN  IF StartsWith(line, INCLUDE_INSTRUCTION)
             THEN UNION {
                      IF r.kind = "Ok"
                      THEN LoadLines(fs, lines, i + 1, r.text, r.definitions,
                               defs, loading)
                      ELSE {r} :
                      r \in LoadIncludes(fs, Tail(SplitWhitespace(line)), 1,
                                module_string, definitions, defs, loading)}
             ELSE IF captures.matched
             THEN LoadLines(fs, lines, i + 1, module_string,
                      Insert(definitions, captures.name, captures.value),
                      defs, loading)
             ELSE LoadLines(fs, lines, i + 1, module_string \o line \o NL,
                      definitions, defs, loading)

LoadShaderModule(fs, module_path, defs, loading) ==
    LET read == ReadToString(fs, module_path)
        parsed == IF defs.some THEN ParseDefines(read.text, defs.names)
                  ELSE [panic |-> FALSE, text |-> read.text]
    IN  IF ~read.ok THEN {NotFound}
        ELSE IF parsed.panic THEN {Panicked}
        ELSE UNION {
                 IF r.kind = "Ok"
                 THEN {OkOutcome(t, r.definitions) :
                          t \in Substitute(r.text, r.definitions)}
                 ELSE {r} :
                 r \in LoadLines(fs, Lines(parsed.text), 1, <<>>, EmptyMap,
                           defs, loading \cup {module_path})}

-----------------------------------------------------------------------------
(* ShaderBuilder.                                                          *)

NotBuilt == [kind |-> "NotBuilt"]

SLASH == "/"
DOT == "."

\* the places of the character c in s
PlacesOf(s, c) == {i \in DOMAIN s : s[i] = c}

\* Path::parent of a relative path of plain components: the path without its
\* last component (empty when there is one component), none for the empty
\* path
Parent(path) ==
    IF path = <<>> THEN [some |-> FALSE]
    ELSE IF PlacesOf(path, SLASH) = {} THEN [some |-> TRUE, path |-> <<>>]
    ELSE LET i == CHOOSE j \in PlacesOf(path, SLASH) :
                      \A k \in PlacesOf(path, SLASH) : k <= j
         IN  [some |-> TRUE, path |-> SubSeq(path, 1, i - 1)]

\* module_path.parent().unwrap_or(path::Path::new("./"))
BasePath(source_path) ==
    IF Parent(source_path).some THEN Parent(source_path).path
    ELSE <<DOT, SLASH>>

\* ShaderBuilder::new: what the caller holds afterwards.  base_path is
\* handed to load_shader_module, which hands it to every recursive call and
\* reads it in none: every module is read at the path as written.
NewOutcomes(fs, source_path, defs) ==
    LET base_path == BasePath(source_path)
    IN  {IF r.kind = "Ok"
         THEN [kind |-> "Ok", source_string |-> r.text,
               source_path |-> source_path]
         ELSE r : r \in LoadShaderModule(fs, source_path, defs, {})}

\* None, or Some(the names of the slice): contains() is all the code asks
NoDefines == [some |-> FALSE]
SomeDefines(names) == [some |-> TRUE, names |-> names]

\* the paths ShaderBuilder::new is called with: every file, and one path
\* that names no file
MissingPath == <<"z">>
RootPaths == DOMAIN files \cup {MissingPath}

New(source_path) ==
    /\ \E b \in NewOutcomes(files, source_path, defines) :
           builders' = [builders EXCEPT ![source_path] = b]
    /\ last' = [op |-> "new", path |-> source_path]
    /\ UNCHANGED <<files, defines, puts>>

NextNew == \E source_path \in RootPaths : New(source_path)

\* str::rsplit(['/', '.']): the pieces between the separators, the last
\* piece first; n separators give n + 1 pieces, empty ones included
RECURSIVE RSplit(_)
RSplit(s) ==
    LET seps == PlacesOf(s, SLASH) \cup PlacesOf(s, DOT)
    IN  IF seps = {} THEN <<s>>
        ELSE LET i == CHOOSE j \in seps : \A k \in seps : k <= j
             IN  <<SubSeq(s, i + 1, Len(s))>> \o RSplit(SubSeq(s, 1, i - 1))

\* the label of build(): source_path.rsplit(['/', '.']).nth(1)
\*                           .unwrap_or(&source_path)
Label(source_path) ==
    IF Len(RSplit(source_path)) >= 2 THEN RSplit(source_path)[2]
    ELSE source_path

\* ShaderBuilder::build(&self): the descriptor borrows the label and the
\* source text; the builder is not changed
Build(path) ==
    /\ builders[path].kind = "Ok"
    /\ last' = [op |-> "build", path |-> path,
                label |-> Label(builders[path].source_path),
                source |-> builders[path].source_string,
                pre |-> builders[path].source_string]
    /\ UNCHANGED <<files, defines, builders, puts>>

NextBuild == \E path \in DOMAIN builders : Build(path)

-----------------------------------------------------------------------------
(* WGSLType: a value is a record of its Rust type and its value.           *)

U32(n) == [type |-> "u32", val |-> n]
I32(n) == [type |-> "i32", val |-> n]
Bool(b) == [type |-> "bool", val |-> b]

Digits == <<"0", "1", "2", "3", "4", "5", "6", "7", "8", "9">>

\* Display of an unsigned integer: its decimal digits
RECURSIVE ToDecimal(_)
ToDecimal(n) ==
    IF n < 10 THEN <<Digits[n + 1]>>
    ELSE ToDecimal(n \div 10) \o <<Digits[(n % 10) + 1]>>

\* WGSLType::type_name
TypeName(type) ==
    CASE type = "u32" -> <<"u", "3", "2">>
      [] type = "i32" -> <<"i", "3", "2">>
      [] type = "bool" -> <<"b", "o", "o", "l">>

\* WGSLType::string_definition
StringDefinition(value) ==
    CASE value.type = "u32" -> ToDecimal(value.val) \o <<"u">>
      [] value.type = "i32" ->
             IF value.val < 0 THEN <<"-">> \o ToDecimal(-value.val)
             ELSE ToDecimal(value.val)
      [] value.type = "bool" ->
             IF value.val THEN <<"t", "r", "u", "e">>
             ELSE <<"f", "a", "l", "s", "e">>

-----------------------------------------------------------------------------
(* ShaderBuilder::put_constant, put_constant_map, put_array_definition.    *)

\* the number of put_* calls in one run
MaxPuts == 1
\* the longest array given to put_array_definition
MaxArrayLen == 2

\* put_constant with only the first occurrence replaced
PutConstantTextFirstOnly(source_string, name, value) ==
    LET at == {i \in DOMAIN source_string : MatchesAt(source_string, name, i)}
        i == CHOOSE j \in at : \A k \in at : j <= k
    IN  IF at = {} \/ name = <<>> THEN source_string
        ELSE SubSeq(source_string, 1, i - 1) \o StringDefinition(value)
                 \o SubSeq(source_string, i + Len(name), Len(source_string))

\* the source_string put_constant leaves
PutConstantText(source_string, name, value) ==
    Replace(source_string, name, StringDefinition(value))

\* put_constant_map with the pairs visited in the given order
RECURSIVE PutConstantsInOrder(_, _, _, _)
PutConstantsInOrder(source_string, constant_map, order, k) ==
    IF k > Len(order) THEN source_string
    ELSE PutConstantsInOrder(
             PutConstantText(source_string, order[k], constant_map[order[k]]),
             constant_map, order, k + 1)

\* the loop of put_array_definition: each element followed by a comma
RECURSIVE ArrayElements(_)
ArrayElements(array) ==
    IF array = <<>> THEN <<>>
    ELSE StringDefinition(Head(array)) \o <<",">> \o ArrayElements(Tail(array))

ArrayType(type, array) ==
    <<"a", "r", "r", "a", "y", "<">> \o TypeName(type) \o <<",", " ">>
        \o ToDecimal(Len(array)) \o <<">">>

\* ArrayDefinition without the declaration in front of the array
ArrayDefinitionBare(name, type, array) ==
    ArrayType(type, array) \o <<"(">> \o ArrayElements(array) \o <<")", ";">>

\* the string_definition put_array_definition builds
ArrayDefinition(name, type, array) ==
    <<"v", "a", "r", "<", "p", "r", "i", "v", "a", "t", "e", ">", " ">>
        \o name \o <<":", " ">> \o ArrayType(type, array) \o <<" ", "=", " ">>
        \o ArrayType(type, array) \o <<"(">> \o ArrayElements(array)
        \o <<")", ";">>

\* the source_string put_array_definition leaves
PutArrayDefinitionText(source_string, name, type, array) ==
    Replace(source_string, DEFINE_INSTRUCTION \o SP \o name,
            ArrayDefinition(name, type, array))

\* the arguments the calls are made with
ConstNames == {<<"x">>, <<"u">>, <<"a", "a">>}
ConstValues == {U32(1), U32(10), Bool(TRUE)}
ConstMaps ==
    UNION {[S -> {U32(1), U32(10)}] :
              S \in {T \in SUBSET ConstNames : Cardinality(T) <= 2}}
ArrayNames == {<<"K">>, <<"K", "K">>}
Arrays ==
    {[type |-> "u32", array |-> a] :
        a \in SeqsUpTo({U32(1), U32(10)}, MaxArrayLen)}
      \cup {[type |-> "bool", array |-> a] : a \in SeqsUpTo({Bool(FALSE)}, 1)}
      \cup {[type |-> "i32", array |-> a] : a \in SeqsUpTo({I32(-1)}, 1)}

PutConstant(path, name, value) ==
    /\ puts < MaxPuts
    /\ builders[path].kind = "Ok"
    /\ builders' = [builders EXCEPT ![path].source_string =
                       PutConstantText(@, name, value)]
    /\ last' = [op |-> "put_constant", path |-> path, name |-> name,
                value |-> value, pre |-> builders[path].source_string]
    /\ puts' = puts + 1
    /\ UNCHANGED <<files, defines>>

PutConstantMap(path, constant_map) ==
    /\ puts < MaxPuts
    /\ builders[path].kind = "Ok"
    /\ \E order \in Orders(DOMAIN constant_map) :
           builders' = [builders EXCEPT ![path].source_string =
                           PutConstantsInOrder(@, constant_map, order, 1)]
    /\ last' = [op |-> "put_constant_map", path |-> path,
                constant_map |-> constant_map,
                pre |-> builders[path].source_string]
    /\ puts' = puts + 1
    /\ UNCHANGED <<files, defines>>

PutArrayDefinition(path, name, type, array) ==
    /\ puts < MaxPuts
    /\ builders[path].kind = "Ok"
    /\ builders' = [builders EXCEPT ![path].source_string =
                       PutArrayDefinitionText(@, name, type, array)]
    /\ last' = [op |-> "put_array_definition", path |-> path, name |-> name,
                type |-> type, array |-> array,
                pre |-> builders[path].source_string]
    /\ puts' = puts + 1
    /\ UNCHANGED <<files, defines>>

NextPutConstant ==
    \E path \in DOMAIN builders, name \in ConstNames, value \in ConstValues :
        PutConstant(path, name, value)

NextPutConstantMap ==
    \E path \in DOMAIN builders, constant_map \in ConstMaps :
        PutConstantMap(path, constant_map)

NextPutArrayDefinition ==
    \E path \in DOMAIN builders, name \in ArrayNames, a \in Arrays :
        PutArrayDefinition(path, name, a.type, a.array)

Next ==
    \/ NextNew
    \/ NextPutConstant
    \/ NextPutConstantMap
    \/ NextPutArrayDefinition

-----------------------------------------------------------------------------
(* Modules with conditional directives: the inputs of SpecCond.            *)

MainPath == <<"m">>
X == <<"X">>
Y == <<"Y">>

\* the longest block of text lines between two directives
MaxBlock == 2
\* the longest module made of arbitrary directives
MaxDirectives == 3

\* a text: its lines, each ended by "\n"
RECURSIVE Unlines(_)
Unlines(lines) ==
    IF lines = <<>> THEN <<>> ELSE Head(lines) \o NL \o Unlines(Tail(lines))


Ifdef(name) == IFDEF_INSTRUCTION \o SP \o name
Ifndef(name) == IFNDEF_INSTRUCTION \o SP \o name

\* the text lines of the guarded block, of the else block, and around them
PLines == {<<"p">>, <<" ", "s", "\t">>, <<>>}
QLines == {<<"q">>, <<"\t", "t">>}
RLine == <<"r">>

\* guard, P, else, Q, endif, with or without a text line before and after it
FlatModules ==
    {around \o <<guard>> \o P \o <<ELSE_INSTRUCTION>> \o Q \o <<ENDIF_INSTRUCTION>> \o around :
        around \in {<<>>, <<RLine>>},
        guard \in {Ifdef(X), Ifndef(X)},
        P \in SeqsUpTo(PLines, MaxBlock) \ {<<>>},
        Q \in SeqsUpTo(QLines, MaxBlock) \ {<<>>}}

Opt(b, line) == IF b THEN <<line>> ELSE <<>>

\* a guard on Y, with or without an else, nested in a guard on X
NestedModules ==
    {<<g1>> \o Opt(a, <<"a">>) \o <<g2>> \o <<<<"b">>>>
        \o Opt(e2, ELSE_INSTRUCTION) \o Opt(e2, <<"c">>)
        \o <<ENDIF_INSTRUCTION>> \o Opt(d, <<"d">>)
        \o Opt(e1, ELSE_INSTRUCTION) \o Opt(e1, <<"e">>)
        \o <<ENDIF_INSTRUCTION>> :
        g1 \in {Ifdef(X), Ifndef(X)}, g2 \in {Ifdef(Y), Ifndef(Y)},
        a \in BOOLEAN, d \in BOOLEAN, e1 \in BOOLEAN, e2 \in BOOLEAN}

\* any short sequence of directives and text, balanced or not
LooseModules ==
    SeqsUpTo({Ifdef(X), Ifndef(X), ELSE_INSTRUCTION, ENDIF_INSTRUCTION, <<"p">>},
             MaxDirectives)

CondModules == FlatModules \cup NestedModules \cup LooseModules

CondDefines ==
    {NoDefines, SomeDefines({}), SomeDefines({X}), SomeDefines({Y}),
     SomeDefines({X, Y})}

InitCond ==
    /\ files \in {[p \in {MainPath} |-> Unlines(m)] : m \in CondModules}
    /\ defines \in CondDefines
    /\ builders = [p \in RootPaths |-> NotBuilt]
    /\ last = [op |-> "none"]
    /\ puts = 0

SpecCond == InitCond /\ [][NextNew]_vars

-----------------------------------------------------------------------------
(* What the claims about conditional blocks speak of.                      *)

\* the lines of the module, and the lines of the text built from it
SourceLines == Lines(files[MainPath])
Built == builders[MainPath]
BuiltLines == Lines(Built.source_string)

SeqToSet(q) == {q[i] : i \in DOMAIN q}

IsDirective(line) == StartsWith(TrimStart(line), INSTRUCTION_PREFIX)
IsGuard(line) == \E name \in {X, Y} : line \in {Ifdef(name), Ifndef(name)}
GuardName(line) == CHOOSE name \in {X, Y} : line \in {Ifdef(name), Ifndef(name)}
GuardWantsDefined(line) == line = Ifdef(GuardName(line))

\* the guard's condition under the names given to new()
Satisfied(line) == GuardWantsDefined(line) <=> (GuardName(line) \in defines.names)

\* lines g, e, n are the guard, the else and the endif of the one
\* conditional block of the module, and no other line is a directive
IsFlat(lines, g, e, n) ==
    /\ g < e /\ e < n
    /\ IsGuard(lines[g])
    /\ lines[e] = ELSE_INSTRUCTION
    /\ lines[n] = ENDIF_INSTRUCTION
    /\ \A i \in DOMAIN lines : i \notin {g, e, n} => ~IsDirective(lines[i])

\* a line as it is emitted: without the white space around it
Emitted(line) == Trim(line)

\* C1: in a module with one conditional block that is not nested (guard
\* `//!ifdef X` or `//!ifndef X`, block P, `//!else`, block Q, `//!endif`),
\* built with a defines list D, the text built holds the lines of P and none
\* of Q when the guard is satisfied (ifdef and X in D, or ifndef and X not in
\* D), the lines of Q and none of P otherwise, so that ifndef selects the
\* opposite of ifdef for the same D; no directive line is in the text.  (A
\* line is emitted without the white space around it, and a blank line is
\* not emitted.)
C1_FlatConditionalSelects ==
    \A g, e, n \in DOMAIN SourceLines :
        (Built.kind = "Ok" /\ defines.some /\ IsFlat(SourceLines, g, e, n)) =>
            LET P == {Emitted(SourceLines[i]) : i \in (g + 1)..(e - 1)} \ {<<>>}
                Q == {Emitted(SourceLines[i]) : i \in (e + 1)..(n - 1)} \ {<<>>}
                around == {Emitted(SourceLines[i]) :
                              i \in DOMAIN SourceLines \ (g..n)} \ {<<>>}
                out == SeqToSet(BuiltLines)
            IN  /\ Satisfied(SourceLines[g]) => out = P \cup around
                /\ ~Satisfied(SourceLines[g]) => out = Q \cup around
                /\ \A line \in out : ~IsDirective(line)

\* a block guarded by `//!ifndef X` was built with X in D: the else block
\* was selected
C1_Witness ==
    /\ Built.kind = "Ok"
    /\ defines.some
    /\ X \in defines.names
    /\ \E g, e, n \in DOMAIN SourceLines :
           /\ IsFlat(SourceLines, g, e, n)
           /\ SourceLines[g] = Ifndef(X)
           /\ n > e + 1
    /\ <<"q">> \in SeqToSet(BuiltLines)

\* The evaluator the claims describe: a stack of the open guards, each
\* entry TRUE when its guard is satisfied now.  `else` flips the innermost
\* entry, `endif` closes it, and a text line is retained when every entry is
\* TRUE.  The result says whether an else or endif met no open guard
\* (stray), how many guards are open at the end, and the lines retained.
RECURSIVE StackWalk(_, _, _, _)
StackWalk(lines, i, stack, kept) ==
    IF i > Len(lines) THEN [stray |-> FALSE, open |-> Len(stack), kept |-> kept]
    ELSE LET line == Trim(lines[i])
             top == Len(stack)
         IN  IF line = ELSE_INSTRUCTION
             THEN IF top = 0 THEN [stray |-> TRUE, open |-> 0, kept |-> kept]
                  ELSE StackWalk(lines, i + 1,
                           [stack EXCEPT ![top] = ~stack[top]], kept)
             ELSE IF line = ENDIF_INSTRUCTION
             THEN IF top = 0 THEN [stray |-> TRUE, open |-> 0, kept |-> kept]
                  ELSE StackWalk(lines, i + 1, SubSeq(stack, 1, top - 1), kept)
             ELSE IF IsGuard(line)
             THEN StackWalk(lines, i + 1, Append(stack, Satisfied(line)), kept)
             ELSE IF (\A k \in DOMAIN stack : stack[k]) /\ line # <<>>
             THEN StackWalk(lines, i + 1, stack, Append(kept, line))
             ELSE StackWalk(lines, i + 1, stack, kept)

Walked == StackWalk(SourceLines, 1, <<>>, <<>>)
ProperlyNested == ~Walked.stray /\ Walked.open = 0

\* C2: in a module whose ifdef/ifndef/else/endif directives are properly
\* nested, to any depth, a text line is retained in the text built exactly
\* when every open guard that encloses it is satisfied.
C2_NestedGuardsAllGovern ==
    (Built.kind = "Ok" /\ defines.some /\ ProperlyNested) =>
        BuiltLines = Walked.kept

\* C10: a module whose conditional directives are not balanced makes the
\* build fail: an else or endif with no open guard gives
\* UnbalancedConditional, a guard still open at the end of the module gives
\* UnterminatedConditional, and no text is built.
C10_UnbalancedFails ==
    (Built.kind # "NotBuilt" /\ defines.some) =>
        /\ Walked.stray =>
               Built = [kind |-> "Err", error |-> "UnbalancedConditional"]
        /\ (~Walked.stray /\ Walked.open > 0) =>
               Built = [kind |-> "Err", error |-> "UnterminatedConditional"]

-----------------------------------------------------------------------------
(* Modules that include modules and define macros: the inputs of           *)
(* SpecInclude.                                                            *)

PathA == <<"A">>
PathB == <<"B">>
PathN == <<"n">>
PathW == <<"w">>
PathV == <<"v">>
PathU == <<"u">>

\* the longest module A
MaxLeafLines == 2

Include(path) == INCLUDE_INSTRUCTION \o SP \o path
Define(name, value) == DEFINE_INSTRUCTION \o SP \o name \o SP \o value

\* the lines of module A: text, a macro whose value holds a space and its
\* own name, a second value for the same macro, an include of a file that
\* does not exist, and an include of A itself
ALines ==
    {<<"a">>,
     Define(<<"a">>, <<"a", " ", "b">>),
     Define(<<"a">>, <<"c">>),
     Include(MissingPath),
     Include(PathA)}

AModules == SeqsUpTo(ALines, MaxLeafLines)

BModules ==
    {<<<<"b">>>>,
     <<<<"a">>>>,
     <<Define(<<"b">>, <<"b", "b">>), <<"b">>>>}

\* m includes A and B on one line, n on two lines
PairFiles(A, B) ==
    [p \in {PathA, PathB, MainPath, PathN} |->
        Unlines(CASE p = PathA -> A
                  [] p = PathB -> B
                  [] p = MainPath -> <<Include(PathA) \o SP \o PathB>>
                  [] p = PathN -> <<Include(PathA), Include(PathB)>>)]

\* w only includes A, v only includes w, u includes A between two lines of
\* its own text
ChainFiles(A) ==
    [p \in {PathA, PathW, PathV, PathU} |->
        Unlines(CASE p = PathA -> A
                  [] p = PathW -> <<Include(PathA)>>
                  [] p = PathV -> <<Include(PathW)>>
                  [] p = PathU -> <<<<"a">>, Include(PathA), <<"a", "a">>>>)]

InitInclude ==
    /\ files \in {PairFiles(A, B) : A \in AModules, B \in BModules}
                     \cup {ChainFiles(A) : A \in AModules}
    /\ defines \in {NoDefines, SomeDefines({})}
    /\ builders = [p \in RootPaths |-> NotBuilt]
    /\ last = [op |-> "none"]
    /\ puts = 0

SpecInclude == InitInclude /\ [][NextNew]_vars

-----------------------------------------------------------------------------
(* What the claims about includes and macros speak of.                     *)

\* the lines of a module as the directives are read from them: trimmed when
\* new() is given a defines list
ModuleLines(path) ==
    LET raw == Lines(files[path])
    IN  [i \in DOMAIN raw |-> IF defines.some THEN Trim(raw[i]) ELSE raw[i]]

IsInclude(line) == StartsWith(line, INCLUDE_INSTRUCTION)

\* the paths named by the include directives of a module
DirectIncludes(path) ==
    IF path \notin DOMAIN files THEN {}
    ELSE UNION {SeqToSet(Tail(SplitWhitespace(ModuleLines(path)[i]))) :
                    i \in {j \in DOMAIN ModuleLines(path) :
                              IsInclude(ModuleLines(path)[j])}}

\* the paths of the include tree below the given ones, these included
RECURSIVE IncludeClosure(_)
IncludeClosure(paths) ==
    LET more == paths \cup UNION {DirectIncludes(p) : p \in paths}
    IN  IF more = paths THEN paths ELSE IncludeClosure(more)

IncludeTree(root) == IncludeClosure({root})

\* some module of the tree includes itself, directly or through others: the
\* tree has no end
EndlessTree(root) ==
    \E p \in IncludeTree(root) : p \in IncludeClosure(DirectIncludes(p))

\* C5: when the root module or a module named by an include directive at
\* any depth of the (finite) include tree does not exist, new() returns the
\* NotFound error and neither a ShaderBuilder nor any text, whatever text
\* the earlier lines and includes had given.
C5_MissingModuleIsNotFound ==
    \A root \in DOMAIN builders :
        (/\ builders[root] # NotBuilt
         /\ ~EndlessTree(root)
         /\ \E p \in IncludeTree(root) : p \notin DOMAIN files)
            => builders[root] = [kind |-> "Err", error |-> "NotFound"]

\* m includes A, A holds a line of text and then the include of a file that
\* does not exist: the build of m gave NotFound
C5_Witness ==
    /\ PathB \in DOMAIN files
    /\ files[PathA] = Unlines(<<<<"a">>, Include(MissingPath)>>)
    /\ MissingPath \in IncludeTree(MainPath)
    /\ builders[MainPath] = [kind |-> "Err", error |-> "NotFound"]

IsOk(path) == path \in DOMAIN builders /\ builders[path].kind = "Ok"
TextBuilt(path) == builders[path].source_string

IsDefine(line) == MacroCaptures(line).matched

\* the macros a module defines, and its lines of ordinary text
DefinedNames(path) ==
    {MacroCaptures(ModuleLines(path)[i]).name :
        i \in {j \in DOMAIN ModuleLines(path) : IsDefine(ModuleLines(path)[j])}}
TextLines(path) ==
    SelectSeq(ModuleLines(path), LAMBDA line : ~IsInclude(line) /\ ~IsDefine(line))

Occurs(s, name) == \E i \in DOMAIN s : MatchesAt(s, name, i)

\* no macro of one module is defined by the other or occurs in its text
NoConflict(p, q) ==
    /\ DefinedNames(p) \cap DefinedNames(q) = {}
    /\ \A name \in DefinedNames(p) :
           \A i \in DOMAIN TextLines(q) : ~Occurs(TextLines(q)[i], name)
    /\ \A name \in DefinedNames(q) :
           \A i \in DOMAIN TextLines(p) : ~Occurs(TextLines(p)[i], name)

\* C3: for modules A and B whose macros do not conflict, the text built
\* from a module that includes A and then B is the text built from A alone
\* followed by the text built from B alone, and it is the same whether the
\* two paths stand on one `//!include A B` line or on two include lines.
C3_IncludeConcatenates ==
    (/\ IsOk(PathA) /\ IsOk(PathB) /\ IsOk(MainPath) /\ IsOk(PathN)
     /\ NoConflict(PathA, PathB))
        => /\ TextBuilt(MainPath) = TextBuilt(PathA) \o TextBuilt(PathB)
           /\ TextBuilt(PathN) = TextBuilt(MainPath)

\* C4: the depth of inclusion does not change the result: a module that
\* only includes M, and a module that only includes that module, are built
\* to exactly the text M is built to.
C4_IncludeDepthIrrelevant ==
    /\ (IsOk(PathA) /\ IsOk(PathW)) => TextBuilt(PathW) = TextBuilt(PathA)
    /\ (IsOk(PathA) /\ IsOk(PathV)) => TextBuilt(PathV) = TextBuilt(PathA)

\* the value the last `//!define NAME VALUE` line of a module gives to NAME
LastValue(path, name) ==
    LET at == {i \in DOMAIN ModuleLines(path) :
                  /\ IsDefine(ModuleLines(path)[i])
                  /\ MacroCaptures(ModuleLines(path)[i]).name = name}
        i == CHOOSE j \in at : \A k \in at : k <= j
    IN  MacroCaptures(ModuleLines(path)[i]).value

\* the lines, each with every occurrence of the name replaced by the value
RECURSIVE Replaced(_, _, _)
Replaced(lines, name, value) ==
    IF lines = <<>> THEN <<>>
    ELSE Replace(Head(lines), name, value) \o NL
             \o Replaced(Tail(lines), name, value)

\* C6: a line `//!define NAME VALUE` (VALUE the rest of the line, spaces
\* allowed) is not emitted, and in the text built every occurrence of NAME
\* in the ordinary text of the defining module, before or after the define
\* line, is replaced by VALUE; the same replacement is made in the text of
\* every module that includes the defining module, directly or through
\* other modules; a later define of NAME overwrites the earlier value.
C6_DefineReplacesName ==
    \A name \in DefinedNames(PathA) :
        (DefinedNames(PathA) = {name} /\ DirectIncludes(PathA) = {}) =>
            LET value == LastValue(PathA, name)
                own == Replaced(TextLines(PathA), name, value)
            IN  /\ IsOk(PathA) => TextBuilt(PathA) = own
                /\ IsOk(PathW) => TextBuilt(PathW) = own
                /\ IsOk(PathV) => TextBuilt(PathV) = own
                /\ IsOk(PathU) =>
                       TextBuilt(PathU) =
                           Replaced(<<<<"a">>>>, name, value) \o own
                               \o Replaced(<<<<"a", "a">>>>, name, value)

-----------------------------------------------------------------------------
(* Modules whose text the put_* calls change: the inputs of Spec.          *)

Placeholder(name) == DEFINE_INSTRUCTION \o SP \o name

TextModules ==
    {<<<<"x", "u", "x">>>>,
     <<<<"a", "a", "a">>, <<"x">>>>,
     <<Placeholder(<<"K">>), <<"x", "u", "x">>>>,
     <<Placeholder(<<"K", "K">>), Placeholder(<<"K">>)>>,
     <<<<"K">>, Placeholder(<<"K">>), <<"a", "a", "a", "a">>>>,
     <<<<"a", "x", "1">>, Placeholder(<<"L">>)>>}

Init ==
    /\ files \in {[p \in {MainPath} |-> Unlines(m)] : m \in TextModules}
    /\ defines \in {NoDefines, SomeDefines({})}
    /\ builders = [p \in RootPaths |-> NotBuilt]
    /\ last = [op |-> "none"]
    /\ puts = 0

Spec == Init /\ [][Next]_vars

-----------------------------------------------------------------------------
(* What the claims about the put_* calls speak of.                         *)

PutText == builders[last.path].source_string

OccurrencesOf(s, pattern) == {i \in DOMAIN s : MatchesAt(s, pattern, i)}

Distance(i, j) == IF i < j THEN j - i ELSE i - j

\* s with the n characters at each index of `at` replaced by `by`
RECURSIVE SpliceFrom(_, _, _, _, _)
SpliceFrom(s, at, n, by, i) ==
    IF i > Len(s) THEN <<>>
    ELSE IF i \in at THEN by \o SpliceFrom(s, at, n, by, i + n)
    ELSE <<s[i]>> \o SpliceFrom(s, at, n, by, i + 1)

\* `new` is `old` with occurrences of the pattern replaced by `by`: the
\* occurrences replaced do not overlap, every other character is unchanged,
\* and no occurrence is left among the characters that were not replaced
IsReplacementOf(new, old, pattern, by) ==
    \E at \in SUBSET OccurrencesOf(old, pattern) :
        /\ \A i, j \in at : i # j => Distance(i, j) >= Len(pattern)
        /\ \A i \in OccurrencesOf(old, pattern) :
               \E j \in at : Distance(i, j) < Len(pattern)
        /\ new = SpliceFrom(old, at, Len(pattern), by, 1)

\* the number a sequence of decimal digits stands for
RECURSIVE DecimalValue(_)
DecimalValue(digits) ==
    IF digits = <<>> THEN 0
    ELSE 10 * DecimalValue(SubSeq(digits, 1, Len(digits) - 1))
             + (CHOOSE d \in 0..9 : Digits[d + 1] = digits[Len(digits)])

\* text is the decimal digits of n, with no leading zero
IsDecimalOf(text, n) ==
    /\ text # <<>>
    /\ \A i \in DOMAIN text : text[i] \in SeqToSet(Digits)
    /\ Len(text) > 1 => text[1] # "0"
    /\ DecimalValue(text) = n

\* text is the decimal digits of n followed by `u`
IsU32Literal(text, n) ==
    /\ Len(text) >= 2
    /\ text[Len(text)] = "u"
    /\ IsDecimalOf(SubSeq(text, 1, Len(text) - 1), n)

\* C7: after put_constant(name, value) the source text is the text before
\* with every occurrence of `name` as a raw substring, also inside longer
\* identifiers, replaced by the literal of the value (for a u32 its decimal
\* digits followed by `u`); every character outside these occurrences is
\* unchanged and no occurrence of the name is left unreplaced.
C7_PutConstantReplacesEvery ==
    last.op = "put_constant" =>
        /\ IsReplacementOf(PutText, last.pre, last.name,
                           StringDefinition(last.value))
        /\ last.value.type = "u32" =>
               IsU32Literal(StringDefinition(last.value), last.value.val)

\* put_constant("x", 10u32) on a text that holds `ax1` and the line `x`:
\* both occurrences became `10u`
C7_Witness ==
    /\ last.op = "put_constant"
    /\ last.name = <<"x">>
    /\ last.value = U32(10)
    /\ last.pre = Unlines(<<<<"a", "x", "1">>, Placeholder(<<"L">>)>>)
    /\ Occurs(PutText, <<"a", "1", "0", "u", "1">>)
    /\ ~Occurs(PutText, <<"x">>)

\* two strings overlap: one holds the other, or an end of one is a
\* beginning of the other
Overlaps(a, b) ==
    \/ a = <<>> \/ b = <<>>
    \/ Occurs(a, b) \/ Occurs(b, a)
    \/ \E k \in 1..(IF Len(a) < Len(b) THEN Len(a) ELSE Len(b)) :
           \/ SubSeq(a, Len(a) - k + 1, Len(a)) = SubSeq(b, 1, k)
           \/ SubSeq(b, Len(b) - k + 1, Len(b)) = SubSeq(a, 1, k)

\* no name of the map overlaps another name or the literal of another
\* name's value
Independent(constant_map) ==
    \A n \in DOMAIN constant_map :
        \A m \in DOMAIN constant_map \ {n} :
            /\ ~Overlaps(n, m)
            /\ ~Overlaps(n, StringDefinition(constant_map[m]))

\* every name of the map replaced by its literal in one pass over the text
RECURSIVE AllAtOnce(_, _, _)
AllAtOnce(s, constant_map, i) ==
    IF i > Len(s) THEN <<>>
    ELSE IF \E n \in DOMAIN constant_map : MatchesAt(s, n, i)
    THEN LET n == CHOOSE m \in DOMAIN constant_map : MatchesAt(s, m, i)
         IN  StringDefinition(constant_map[n])
                 \o AllAtOnce(s, constant_map, i + Len(n))
    ELSE <<s[i]>> \o AllAtOnce(s, constant_map, i + 1)

\* C8: put_constant_map does not depend on the order: for every
\* source text and every map of distinct names the text it leaves is the
\* same for every order in which the pairs are applied, the text that
\* put_constant called once for each pair, in any order, leaves.
C8_MapOrderIndependent ==
    last.op = "put_constant_map" =>
        \A order \in Orders(DOMAIN last.constant_map) :
            PutConstantsInOrder(last.pre, last.constant_map, order, 1) = PutText

\* What does hold of put_constant_map: for a map in which no name overlaps
\* another name or the literal of another name's value (neither holds the
\* other, no end of one is a beginning of the other), the text it leaves is
\* the same for every order of the pairs: every name replaced by its
\* literal, as put_constant called once for each pair, in any order, leaves.
IndependentMapOrderIndependent ==
    (last.op = "put_constant_map" /\ Independent(last.constant_map)) =>
        /\ PutText = AllAtOnce(last.pre, last.constant_map, 1)
        /\ \A order \in Orders(DOMAIN last.constant_map) :
               PutConstantsInOrder(last.pre, last.constant_map, order, 1)
                   = PutText

\* a map of the two names `x` and `aa`, put into a text that holds both
IndependentMapPut ==
    /\ last.op = "put_constant_map"
    /\ DOMAIN last.constant_map = {<<"x">>, <<"a", "a">>}
    /\ Independent(last.constant_map)
    /\ Occurs(last.pre, <<"x">>)
    /\ Occurs(last.pre, <<"a", "a">>)
    /\ ~Occurs(PutText, <<"x">>)
    /\ ~Occurs(PutText, <<"a", "a">>)

\* the literals of the elements in their order, a comma after each
RECURSIVE ElementList(_)
ElementList(array) ==
    IF array = <<>> THEN <<>>
    ELSE StringDefinition(Head(array)) \o <<",">> \o ElementList(Tail(array))

\* `array<T, N>`
ArrayOf(type, array) ==
    <<"a", "r", "r", "a", "y", "<">> \o TypeName(type) \o <<",", " ">>
        \o ToDecimal(Len(array)) \o <<">">>

\* `array<T, N>(d0,d1,...,dN-1,);`
ArrayLiteral(type, array) ==
    ArrayOf(type, array) \o <<"(">> \o ElementList(array) \o <<")", ";">>

\* `var<private> NAME: array<T, N> = array<T, N>(d0,d1,...,dN-1,);`
ArrayDeclaration(name, type, array) ==
    <<"v", "a", "r", "<", "p", "r", "i", "v", "a", "t", "e", ">", " ">>
        \o name \o <<":", " ">> \o ArrayOf(type, array) \o <<" ", "=", " ">>
        \o ArrayLiteral(type, array)

PreLines == Lines(last.pre)
PutLines == Lines(PutText)

\* C9 as claimed: put_array_definition(NAME, [v0..vN-1]) on a source with
\* the placeholder line `//!define NAME` replaces exactly that line by
\* `array<T, N>(d0,d1,...,dN-1,);` (T the type name of the elements, N their
\* number, di the literal of vi, a comma after each) and leaves every other
\* line, the placeholder lines of other names too, unchanged.
C9_ArrayReplacesLine ==
    (/\ last.op = "put_array_definition"
     /\ Placeholder(last.name) \in SeqToSet(PreLines)) =>
        PutLines = [i \in DOMAIN PreLines |->
                       IF PreLines[i] = Placeholder(last.name)
                       THEN ArrayLiteral(last.type, last.array)
                       ELSE PreLines[i]]

\* C9 as amended: put_array_definition(NAME, [v0..vN-1]) replaces every
\* occurrence of the text `//!define NAME` in the source, also where more
\* text follows it on the line (the placeholder of a longer name that
\* begins with NAME), by
\* `var<private> NAME: array<T, N> = array<T, N>(d0,d1,...,dN-1,);`.
\* A line that is the placeholder becomes exactly that declaration, and a
\* line that does not hold the text `//!define NAME` is unchanged.
C9_ArrayReplacesPlaceholderText ==
    last.op = "put_array_definition" =>
        LET declaration == ArrayDeclaration(last.name, last.type, last.array)
        IN  /\ IsReplacementOf(PutText, last.pre, Placeholder(last.name),
                               declaration)
            /\ DOMAIN PutLines = DOMAIN PreLines
            /\ \A i \in DOMAIN PreLines :
                   /\ PreLines[i] = Placeholder(last.name) =>
                          PutLines[i] = declaration
                   /\ ~Occurs(PreLines[i], Placeholder(last.name)) =>
                          PutLines[i] = PreLines[i]

\* put_array_definition("K", [1u, 10u]) on the lines `//!define KK` and
\* `//!define K`: the second became the declaration, and so did the
\* beginning of the first
C9_Witness ==
    /\ last.op = "put_array_definition"
    /\ last.name = <<"K">>
    /\ last.array = <<U32(1), U32(10)>>
    /\ PreLines = <<Placeholder(<<"K", "K">>), Placeholder(<<"K">>)>>
    /\ PutLines[2] = ArrayDeclaration(<<"K">>, "u32", <<U32(1), U32(10)>>)
    /\ PutLines[1] = PutLines[2] \o <<"K">>

-----------------------------------------------------------------------------
(* Root modules in directories, with and without an extension: the inputs  *)
(* of SpecPath.                                                            *)

\* the root paths: no directory part and no extension, an extension, a
\* directory, both, two dots in the file name, a dot in the directory name
\* (with and without an extension), two directories
PathRoots ==
    {<<"m">>,
     <<"m", ".", "w">>,
     <<"d", "/", "m">>,
     <<"d", "/", "m", ".", "w">>,
     <<"m", ".", "a", ".", "w">>,
     <<"d", ".", "e", "/", "m", ".", "w">>,
     <<"d", ".", "e", "/", "m">>,
     <<"d", "/", "e", "/", "m", ".", "w">>}

\* Path::join of a relative path onto a base directory
Join(base, path) ==
    IF base = <<>> THEN path ELSE base \o <<SLASH>> \o path

\* the places a file named by the include token may be at: in the working
\* directory of the process (the token as written), in the directory of
\* the root module
PlacesFor(root, token) == {token, Join(BasePath(root), token)}

\* the line that tells the file at `place` from the file named by the same
\* token elsewhere
Mark(place) == IF PlacesOf(place, SLASH) = {} THEN <<"c">> ELSE <<"d">>

\* the root holds a line of text and includes A; the files A, where they
\* exist, hold a line of text and, when `nested`, include B; the files B
\* hold a line of text
PathFiles(root, placesA, placesB, nested) ==
    [p \in {root} \cup placesA \cup placesB |->
        Unlines(IF p = root THEN <<<<"r">>, Include(PathA)>>
                ELSE IF p \in placesA
                THEN <<Mark(p)>> \o (IF nested THEN <<Include(PathB)>> ELSE <<>>)
                ELSE <<Mark(p), <<"b">>>>)]

InitPath ==
    /\ files \in UNION {{PathFiles(root, placesA, placesB, nested) :
                             placesA \in SUBSET PlacesFor(root, PathA),
                             placesB \in SUBSET PlacesFor(root, PathB),
                             nested \in BOOLEAN} :
                         root \in PathRoots}
    /\ defines = NoDefines
    /\ builders = [p \in RootPaths |-> NotBuilt]
    /\ last = [op |-> "none"]
    /\ puts = 0

NextPath ==
    \/ NextNew
    \/ NextBuild

SpecPath == InitPath /\ [][NextPath]_vars

-----------------------------------------------------------------------------
(* What the claims about paths speak of.                                   *)

RECURSIVE AssembledLines(_, _, _, _, _, _)
RECURSIVE AssembledIncludes(_, _, _, _, _, _)

\* the include tree below a module assembled, every include token read in
\* the directory `base`: the text of its ordinary lines in the order of the
\* tree, no macro substituted, and the macro table its define lines give (a
\* later define of a name overwrites).  `seen` holds the modules above this
\* one.
Assembled(base, path, seen) ==
    IF path \notin DOMAIN files \/ path \in seen THEN [ok |-> FALSE]
    ELSE AssembledLines(base, ModuleLines(path), 1, <<>>, EmptyMap,
             seen \cup {path})

AssembledIncludes(base, tokens, k, text, table, seen) ==
    IF k > Len(tokens) THEN [ok |-> TRUE, text |-> text, table |-> table]
    ELSE LET r == Assembled(base, Join(base, tokens[k]), seen)
         IN  IF r.ok
             THEN AssembledIncludes(base, tokens, k + 1, text \o r.text,
                      Extend(table, r.table), seen)
             ELSE r

AssembledLines(base, lines, i, text, table, seen) ==
    IF i > Len(lines) THEN [ok |-> TRUE, text |-> text, table |-> table]
    ELSE IF IsInclude(lines[i])
    THEN LET r == AssembledIncludes(base, Tail(SplitWhitespace(lines[i])), 1,
                      text, table, seen)
         IN  IF r.ok
             THEN AssembledLines(base, lines, i + 1, r.text, r.table, seen)
             ELSE r
    ELSE IF IsDefine(lines[i])
    THEN AssembledLines(base, lines, i + 1, text,
             Insert(table, MacroCaptures(lines[i]).name,
                 MacroCaptures(lines[i]).value), seen)
    ELSE AssembledLines(base, lines, i + 1, text \o lines[i] \o NL, table,
             seen)

\* C11: every path token of an include directive, at every depth of the
\* include tree, is read in the parent directory of the root path given to
\* new(): the text built is the text of the tree whose files are (parent of
\* the root)/token, for the includes of included modules too, and new()
\* fails exactly when one of those files does not exist.
C11_IncludesResolvedFromRootParent ==
    \A root \in DOMAIN files :
        builders[root] # NotBuilt =>
            LET tree == Assembled(BasePath(root), root, {})
            IN  IF tree.ok
                THEN /\ builders[root].kind = "Ok"
                     /\ builders[root].source_string = tree.text
                ELSE builders[root] = NotFound

\* the file name of a path: what follows the last `/`
FileName(path) ==
    IF PlacesOf(path, SLASH) = {} THEN path
    ELSE LET i == CHOOSE j \in PlacesOf(path, SLASH) :
                      \A k \in PlacesOf(path, SLASH) : k <= j
         IN  SubSeq(path, i + 1, Len(path))

\* a file name without its extension: what stands before its last `.`
Stem(name) ==
    IF PlacesOf(name, DOT) = {} THEN name
    ELSE LET i == CHOOSE j \in PlacesOf(name, DOT) :
                      \A k \in PlacesOf(name, DOT) : k <= j
         IN  SubSeq(name, 1, i - 1)

\* C12: for every root path new() accepted, the label of the descriptor
\* build() returns is the file name of the root path without its extension
\* (also without a directory part, without an extension, with more than one
\* dot in the file name, with a dot in a directory name), and build() leaves
\* the source text of the builder as it was.
C12_LabelIsFileStem ==
    last.op = "build" =>
        /\ last.label = Stem(FileName(last.path))
        /\ builders[last.path].source_string = last.pre
        /\ last.source = last.pre

-----------------------------------------------------------------------------
(* What the claims about the substitution pass speak of.                   *)

\* one pass over the text: every occurrence of a name of the table, found
\* from the left, gives the name's value; what a value put in holds is not
\* looked at again
RECURSIVE SinglePass(_, _, _)
SinglePass(s, table, i) ==
    IF i > Len(s) THEN <<>>
    ELSE IF \E n \in DOMAIN table : MatchesAt(s, n, i)
    THEN LET n == CHOOSE m \in DOMAIN table : MatchesAt(s, m, i)
         IN  table[n] \o SinglePass(s, table, i + Len(n))
    ELSE <<s[i]>> \o SinglePass(s, table, i + 1)

\* C13: macro substitution is one pass made once, at the outermost call,
\* after the whole include tree is assembled: the text built is the
\* assembled text of the tree with every occurrence of a macro's name
\* replaced by its value once; no piece of text is substituted again at the
\* level of an includer, and no value put in is substituted again, by the
\* same macro or by another.
C13_SubstitutionIsSinglePass ==
    \A root \in DOMAIN files :
        IsOk(root) =>
            LET tree == Assembled(BasePath(root), root, {})
            IN  /\ tree.ok
                /\ TextBuilt(root) = SinglePass(tree.text, tree.table, 1)

-----------------------------------------------------------------------------
(* Modules with two macros: the inputs of SpecOrder.                       *)

MacroNames == {<<"x">>, <<"y">>, <<"a", "b">>, <<"b", "c">>}
MacroValues == {<<"1">>, <<"a">>, <<"2", "2">>}
MacroTexts == {<<"a", "b", "c">>, <<"x", "b">>, <<"x", "y", "x">>}

\* one module that defines both macros and holds the text
OneModule(n1, v1, n2, v2, text) ==
    [p \in {MainPath} |-> Unlines(<<Define(n1, v1), Define(n2, v2), text>>)]

\* the root defines the first macro and includes A, which defines the
\* second; both hold the text
TwoModules(n1, v1, n2, v2, text) ==
    [p \in {MainPath, PathA} |->
        Unlines(IF p = MainPath THEN <<Define(n1, v1), Include(PathA), text>>
                ELSE <<Define(n2, v2), text>>)]

InitOrder ==
    /\ files \in {OneModule(n1, v1, n2, v2, text) :
                     n1 \in MacroNames, v1 \in MacroValues,
                     n2 \in MacroNames, v2 \in MacroValues,
                     text \in MacroTexts}
                 \cup {TwoModules(n1, v1, n2, v2, text) :
                     n1 \in MacroNames, v1 \in MacroValues,
                     n2 \in MacroNames, v2 \in MacroValues,
                     text \in MacroTexts}
    /\ defines = NoDefines
    /\ builders = [p \in RootPaths |-> NotBuilt]
    /\ last = [op |-> "none"]
    /\ puts = 0

SpecOrder == InitOrder /\ [][NextNew]_vars

-----------------------------------------------------------------------------
(* What the claim about the iteration order speaks of.                     *)

\* the macros the define lines of the include tree give: name and value
TreeMacros(root) ==
    UNION {{[name |-> MacroCaptures(ModuleLines(p)[i]).name,
             value |-> MacroCaptures(ModuleLines(p)[i]).value] :
               i \in {j \in DOMAIN ModuleLines(p) :
                         IsDefine(ModuleLines(p)[j])}} :
           p \in IncludeTree(root) \cap DOMAIN files}

\* no macro name occurs in another macro's name or in a macro's value
NoNameInside(root) ==
    \A p, q \in TreeMacros(root) :
        /\ p.name # q.name => ~Occurs(q.name, p.name)
        /\ ~Occurs(q.value, p.name)

\* no macro name overlaps another macro's name or a macro's value
NoNameOverlaps(root) ==
    \A p, q \in TreeMacros(root) :
        /\ p.name # q.name => ~Overlaps(p.name, q.name)
        /\ ~Overlaps(p.name, q.value)

\* the text built is the text new() gives for every order in which the
\* definitions are iterated
SameForEveryOrder(root) ==
    \A r \in NewOutcomes(files, root, defines) :
        r.kind = "Ok" /\ r.source_string = TextBuilt(root)

\* C14: for fixed files and a fixed defines argument in which no macro
\* name occurs as a substring of another macro's name or of a macro's
\* value, the text new() builds is the same for every order in which the
\* collected definitions are iterated during substitution.
C14_OrderIndependentNoSubstring ==
    \A root \in DOMAIN files :
        (IsOk(root) /\ NoNameInside(root)) => SameForEveryOrder(root)

\* C14 as amended: for fixed files and a fixed defines argument in which no
\* macro name overlaps another macro's name or a macro's value (neither
\* holds the other, and no end of one is a beginning of the other), the
\* text new() builds is the same for every order in which the collected
\* definitions are iterated during substitution.
C14_OrderIndependentNoOverlap ==
    \A root \in DOMAIN files :
        (IsOk(root) /\ NoNameOverlaps(root)) => SameForEveryOrder(root)

\* the root defines x and includes A, which defines y; both hold `xyx`, no
\* name overlaps a name or a value, and the root is built with both macros
\* replaced
C14_Witness ==
    /\ PathA \in DOMAIN files
    /\ TreeMacros(MainPath) =
           {[name |-> <<"x">>, value |-> <<"1">>],
            [name |-> <<"y">>, value |-> <<"2", "2">>]}
    /\ NoNameOverlaps(MainPath)
    /\ IsOk(MainPath)
    /\ TextBuilt(MainPath) =
           Unlines(<<<<"1", "2", "2", "1">>, <<"1", "2", "2", "1">>>>)

====
